---- MODULE Spec2Model ----
(***************************************************************************)
(* Component list engine of MultiMC5 (api/logic/minecraft):                *)
(* ComponentList.cpp, Component.cpp, Component.h.                          *)
(*                                                                         *)
(* The in-memory list (components, componentIndex, dirty, m_saveTimer,     *)
(* m_profile, m_oldConfigVersions) and the instance directory              *)
(* (mmc-pack.json, patches/, jarmods/, the custom jar, the legacy files)   *)
(* are the state.  Every public operation of ComponentList is one action;  *)
(* the helpers it calls are operators over a record of the whole state, so *)
(* that an action is the composition the code performs.                    *)
(***************************************************************************)
EXTENDS Integers, Sequences, FiniteSets, TLC

VARIABLES
    alive,                \* the ComponentList object exists
    components,           \* d->components
    componentIndex,       \* d->componentIndex
    dirty,                \* d->dirty
    m_saveTimer,          \* d->m_saveTimer: [active, elapsed]
    m_profile,            \* d->m_profile
    m_oldConfigVersions,  \* d->m_oldConfigVersions
    manifest,             \* <root>/mmc-pack.json
    patches,              \* <root>/patches/<name>.json
    jarmods,              \* <root>/jarmods/<uuid>.jar
    libJar,               \* libraries/.../customjar-1.jar
    legacy,               \* version.json, custom.json, order.json and *.old
    steps,                \* operations run so far
    faults,               \* operations run so far in which a filesystem step failed
    lastOp,               \* history: the operation that ran last
    since,                \* history: time since the scheduleSave call of the pending save
    intended              \* history: the uids the list mutations so far add up to

vars == <<alive, components, componentIndex, dirty, m_saveTimer, m_profile,
          m_oldConfigVersions, manifest, patches, jarmods, libJar, legacy,
          steps, faults, lastOp, since, intended>>

----------------------------------------------------------------------------
(* Bounds *)

MaxComponents == 3      \* longest list the edit operations build
TickMs == 5000          \* granularity of the passage of time
MaxPaths == 2           \* most files handed to one installJarMods call
MaxSteps == 3           \* most operations of a run (the passage of time is not counted)
                        \* and one expiry of the timer may follow the last of them
MaxFaults == 1          \* most operations of a run that meet a failing step

(* Program constants *)

SaveInterval == 5000
currentComponentsFileVersion == 1
BuiltinOrderMinecraft == 0 - 2
BuiltinOrderLwjgl == 0 - 1
ForgeOrder == 5
LiteloaderOrder == 10
FreeOrderBase == 100

----------------------------------------------------------------------------
(* Identifiers.  UidOrder lists every uid of the model in QString order,   *)
(* which is the iteration order of QMap<QString, ...>.                     *)

UidOrder == << "com.mumfrey.liteloader", "customjar", "mod.a", "mod.b",
               "net.minecraft", "net.minecraftforge", "org.lwjgl",
               "org.multimc.jarmod.u1", "org.multimc.jarmod.u2" >>

Uids == { UidOrder[i] : i \in 1..Len(UidOrder) }

UidRank(u) == CHOOSE i \in 1..Len(UidOrder) : UidOrder[i] = u

JarIds == { "u1", "u2" }

JarModUid(id) == IF id = "u1" THEN "org.multimc.jarmod.u1" ELSE "org.multimc.jarmod.u2"

MetaUids == { "net.minecraft", "org.lwjgl", "net.minecraftforge", "mod.b" }

MetaName(u) ==
    CASE u = "net.minecraft" -> "Minecraft"
      [] u = "org.lwjgl" -> "LWJGL"
      [] u = "net.minecraftforge" -> "Forge"
      [] OTHER -> ""

----------------------------------------------------------------------------
(* Sequence helpers *)

RECURSIVE Concat(_)
Concat(ss) == IF ss = <<>> THEN <<>> ELSE Head(ss) \o Concat(Tail(ss))

Reverse(s) == [ i \in 1..Len(s) |-> s[Len(s) + 1 - i] ]

RemoveAt(s, i) == SubSeq(s, 1, i - 1) \o SubSeq(s, i + 1, Len(s))

Swap(s, i, j) == [ k \in 1..Len(s) |-> IF k = i THEN s[j] ELSE IF k = j THEN s[i] ELSE s[k] ]

\* the uids of set S as a sequence in QString order
SortUids(S) ==
    LET keep(u) == u \in S
    IN  SelectSeq(UidOrder, keep)

RECURSIVE InsertSorted(_, _)
\* insert integer k into the ascending sequence s
InsertSorted(s, k) ==
    IF s = <<>> THEN <<k>>
    ELSE IF k < Head(s) THEN <<k>> \o s
    ELSE <<Head(s)>> \o InsertSorted(Tail(s), k)

UidsOf(cs) == [ i \in 1..Len(cs) |-> cs[i].m_uid ]

----------------------------------------------------------------------------
(* Version files, metadata handles, components *)

NullFile == [ null |-> TRUE, uid |-> "", version |-> "", name |-> "",
              order |-> 0, jarMods |-> <<>>, mainJar |-> "" ]

VFile(u, v, n, o, jm, mj) ==
    [ null |-> FALSE, uid |-> u, version |-> v, name |-> n,
      order |-> o, jarMods |-> jm, mainJar |-> mj ]

NullMeta == [ null |-> TRUE, uid |-> "", version |-> "", name |-> "" ]

\* ENV.metadataIndex()->get(uid, version)
MetaGet(u, v) == [ null |-> FALSE, uid |-> u, version |-> v, name |-> MetaName(u) ]

\* Meta::Version::data(): the version file of a loaded remote version
MetaData(meta) == VFile(meta.uid, meta.version, meta.name, 0, <<>>, "")

NoPath == <<>>
PatchPath(u) == << "patches", u >>
\* FS::PathCombine(componentJsonPattern.arg(uid), QString("%1.json").arg(uid))
NestedPatchPath(u) == << "patches", u, u >>

\* Component::Component(const QString& uid, const QString& filename)
ComponentUidFilename(u, fname) ==
    [ m_uid |-> u, cachedName |-> "", m_currentVersion |-> "",
      m_metaVersion |-> NullMeta, m_file |-> NullFile, m_filename |-> fname,
      m_isMovable |-> FALSE, m_isRevertible |-> FALSE, m_isRemovable |-> FALSE,
      m_isVanilla |-> FALSE, m_orderOverride |-> FALSE, m_order |-> 0 ]

\* Component::Component(std::shared_ptr<Meta::Version> version)
ComponentMeta(meta) ==
    [ m_uid |-> meta.uid, cachedName |-> meta.name, m_currentVersion |-> meta.version,
      m_metaVersion |-> meta, m_file |-> NullFile, m_filename |-> NoPath,
      m_isMovable |-> FALSE, m_isRevertible |-> FALSE, m_isRemovable |-> FALSE,
      m_isVanilla |-> FALSE, m_orderOverride |-> FALSE, m_order |-> 0 ]

\* Component::Component(const QString& uid, std::shared_ptr<VersionFile> file, const QString& filename)
ComponentFile(u, file, fname) ==
    [ m_uid |-> u, cachedName |-> file.name, m_currentVersion |-> file.version,
      m_metaVersion |-> NullMeta, m_file |-> file, m_filename |-> fname,
      m_isMovable |-> FALSE, m_isRevertible |-> FALSE, m_isRemovable |-> FALSE,
      m_isVanilla |-> FALSE, m_orderOverride |-> FALSE, m_order |-> 0 ]

setOrder(c, o) == [ c EXCEPT !.m_orderOverride = TRUE, !.m_order = o ]

getVersionFile(c) ==
    IF ~c.m_metaVersion.null THEN MetaData(c.m_metaVersion) ELSE c.m_file

getOrder(c) ==
    IF c.m_orderOverride THEN c.m_order
    ELSE IF ~getVersionFile(c).null THEN getVersionFile(c).order
    ELSE 0

getID(c) == c.m_uid

getVersion(c) ==
    IF ~c.m_metaVersion.null THEN c.m_metaVersion.version
    ELSE IF ~getVersionFile(c).null THEN getVersionFile(c).version
    ELSE c.m_currentVersion

isCustom(c) == ~c.m_file.null

isCustomizable(c) == ~c.m_metaVersion.null /\ ~getVersionFile(c).null

isRemovable(c) == c.m_isRemovable
isRevertible(c) == c.m_isRevertible
isMoveable(c) == c.m_isMovable

----------------------------------------------------------------------------
(* Files of the instance directory *)

NoManifest == [ exists |-> FALSE, json |-> FALSE, formatVersion |-> 0, components |-> <<>> ]

NoOrderJson == [ exists |-> FALSE, uids |-> <<>> ]

NoLegacy == [ version |-> NullFile, custom |-> NullFile,
              versionOld |-> FALSE, customOld |-> FALSE, order |-> NoOrderJson ]

NoPatches == [ n \in Uids |-> NullFile ]

\* QFile::exists(path) for the paths the list hands out
FileExists(S, path) ==
    /\ Len(path) = 2
    /\ path[1] = "patches"
    /\ path[2] \in Uids
    /\ ~S.patches[path[2]].null

(* Outcomes of the filesystem steps of one operation.  An operation runs    *)
(* with every step succeeding or with one kind of step failing.             *)

IoOk == [ save |-> "ok",      \* saveComponentList: ok, open, write, commit
          read |-> TRUE,      \* QFile::open(ReadOnly) of the manifest
          upgrade |-> "ok",   \* upgradeDeprecatedFiles: ok, ensure, renameOld, open, commit, renameSrc
          patch |-> "ok",     \* writing a patch file: ok, ensure, open, commit
          remove |-> TRUE,    \* QFile::remove of a patch file or the custom jar
          jarRemove |-> {},   \* jar mods whose QFile::remove fails
          copy |-> 0,         \* 1-based position of the path whose QFile::copy fails, 0 for none
          throws |-> FALSE ]  \* a component's applyTo raises an Exception

IoFaults ==
    { [ IoOk EXCEPT !.save = v ] : v \in { "open", "write", "commit" } }
    \cup { [ IoOk EXCEPT !.read = FALSE ] }
    \cup { [ IoOk EXCEPT !.upgrade = v ] : v \in { "ensure", "renameOld", "open", "commit", "renameSrc" } }
    \cup { [ IoOk EXCEPT !.patch = v ] : v \in { "ensure", "open", "commit" } }
    \cup { [ IoOk EXCEPT !.remove = FALSE ] }
    \cup { [ IoOk EXCEPT !.jarRemove = { j } ] : j \in JarIds }
    \cup { [ IoOk EXCEPT !.copy = k ] : k \in 1..MaxPaths }
    \cup { [ IoOk EXCEPT !.throws = TRUE ] }

Ios == { IoOk } \cup IoFaults

\* the outcomes that matter to save
SaveIos == { io \in Ios : io = [ IoOk EXCEPT !.save = io.save ] }

\* the outcomes that matter to load
LoadIos == { io \in Ios : io = [ IoOk EXCEPT !.save = io.save, !.read = io.read,
                                              !.upgrade = io.upgrade ] }

ThrowIos == { io \in Ios : io = [ IoOk EXCEPT !.throws = io.throws ] }

RemoveIos == ThrowIos \cup { io \in Ios : io = [ IoOk EXCEPT !.remove = io.remove,
                                                             !.jarRemove = io.jarRemove ] }

PatchIos == { io \in Ios : io = [ IoOk EXCEPT !.patch = io.patch ] }

InstallIos == ThrowIos \cup { io \in PatchIos : io.patch # "commit" }
              \cup { io \in Ios : io = [ IoOk EXCEPT !.copy = io.copy ] }

----------------------------------------------------------------------------
(* Component file format *)

componentToJsonV1(c) ==
    LET uidPart == ( "uid" :> c.m_uid )
    IN  IF c.m_currentVersion # "" /\ c.cachedName # ""
        THEN uidPart @@ ( "currentVersion" :> c.m_currentVersion ) @@ ( "cachedName" :> c.cachedName )
        ELSE IF c.m_currentVersion # ""
        THEN uidPart @@ ( "currentVersion" :> c.m_currentVersion )
        ELSE IF c.cachedName # ""
        THEN uidPart @@ ( "cachedName" :> c.cachedName )
        ELSE uidPart

\* Json::ensureString(obj.value(key)): the default when the key is absent
ensureString(obj, key) == IF key \in DOMAIN obj THEN obj[key] ELSE ""

\* Json::requireString(obj.value("uid")) raises JSONValidationError when absent
EntryValid(obj) == "uid" \in DOMAIN obj

\* componentFromJsonV1 that leaves cachedName at its default
componentFromJsonV1_NoName(obj) ==
    LET uid == obj["uid"]
        component == ComponentUidFilename(uid, NestedPatchPath(uid))
    IN  [ component EXCEPT !.m_currentVersion = ensureString(obj, "currentVersion") ]

componentFromJsonV1(obj) ==
    LET uid == obj["uid"]
        component == ComponentUidFilename(uid, NestedPatchPath(uid))
    IN  [ component EXCEPT !.m_currentVersion = ensureString(obj, "currentVersion"),
                           !.cachedName = ensureString(obj, "cachedName") ]

ManifestOf(container) ==
    [ exists |-> TRUE, json |-> TRUE, formatVersion |-> currentComponentsFileVersion,
      components |-> [ i \in 1..Len(container) |-> componentToJsonV1(container[i]) ] ]

\* saveComponentList: the value returned and the manifest left on disk
saveComponentList(old, container, outcome) ==
    CASE outcome = "open" -> [ ret |-> FALSE, manifest |-> old ]
      [] outcome = "write" -> [ ret |-> FALSE, manifest |-> old ]
      [] outcome = "commit" -> [ ret |-> TRUE, manifest |-> old ]
      [] OTHER -> [ ret |-> TRUE, manifest |-> ManifestOf(container) ]

\* the loop over the "components" array: entries are appended to the
\* container one by one until one raises JSONValidationError
RECURSIVE readEntries(_, _)
readEntries(orderArray, container) ==
    IF orderArray = <<>> THEN [ thrown |-> FALSE, container |-> container ]
    ELSE IF ~EntryValid(Head(orderArray)) THEN [ thrown |-> TRUE, container |-> container ]
    ELSE readEntries(Tail(orderArray), Append(container, componentFromJsonV1(Head(orderArray))))

\* loadComponentList whose catch block does not clear the container
loadComponentList_NoClear(file, readOk) ==
    LET caught(r) == [ ret |-> ~r.thrown, container |-> r.container ]
    IN  IF ~file.exists THEN [ ret |-> FALSE, container |-> <<>> ]
        ELSE IF ~readOk THEN [ ret |-> FALSE, container |-> <<>> ]
        ELSE IF ~file.json THEN [ ret |-> FALSE, container |-> <<>> ]
        ELSE IF file.formatVersion # currentComponentsFileVersion
             THEN [ ret |-> FALSE, container |-> <<>> ]
        ELSE caught(readEntries(file.components, <<>>))

\* loadComponentList: the value returned and the container filled
loadComponentList(file, readOk) ==
    LET caught(r) == IF r.thrown THEN [ ret |-> FALSE, container |-> <<>> ]
                     ELSE [ ret |-> TRUE, container |-> r.container ]
    IN  IF ~file.exists THEN [ ret |-> FALSE, container |-> <<>> ]
        ELSE IF ~readOk THEN [ ret |-> FALSE, container |-> <<>> ]
        ELSE IF ~file.json THEN [ ret |-> FALSE, container |-> <<>> ]
        ELSE IF file.formatVersion # currentComponentsFileVersion
             THEN [ ret |-> FALSE, container |-> <<>> ]
        ELSE caught(readEntries(file.components, <<>>))

----------------------------------------------------------------------------
(* The whole state as one record, so that helpers compose as in the code.   *)
(* saves and signals collect what the running operation did.                *)

Cur ==
    [ components |-> components, componentIndex |-> componentIndex, dirty |-> dirty,
      m_saveTimer |-> m_saveTimer, m_profile |-> m_profile,
      m_oldConfigVersions |-> m_oldConfigVersions,
      manifest |-> manifest, patches |-> patches, jarmods |-> jarmods,
      libJar |-> libJar, legacy |-> legacy,
      since |-> since, saves |-> 0, signals |-> <<>> ]

Emit(S, sig) == [ S EXCEPT !.signals = Append(@, sig) ]

TimerStopped == [ active |-> FALSE, elapsed |-> 0 ]
TimerStarted == [ active |-> TRUE, elapsed |-> 0 ]

NoProfile == [ null |-> TRUE, applied |-> <<>> ]

saveIsScheduled(S) == S.dirty

\* ComponentList::scheduleSave without the restart of a running timer
scheduleSave_NoRestart(S) ==
    [ S EXCEPT !.dirty = TRUE,
               !.m_saveTimer = IF S.m_saveTimer.active THEN @ ELSE TimerStarted,
               !.since = 0 ]

\* ComponentList::scheduleSave that sets the flag and leaves the timer alone
scheduleSave_NoTimer(S) == [ S EXCEPT !.dirty = TRUE ]

scheduleSave(S) ==
    [ S EXCEPT !.dirty = TRUE,
               !.m_saveTimer = TimerStarted,
               !.since = 0 ]

\* ComponentList::save that clears the flag without writing the manifest
save_NoWrite(S, outcome) ==
    [ S EXCEPT !.dirty = FALSE,
               !.saves = @ + 1 ]

save(S, outcome) ==
    [ S EXCEPT !.manifest = saveComponentList(S.manifest, S.components, outcome).manifest,
               !.dirty = FALSE,
               !.saves = @ + 1 ]

\* one applyTo of Component: the uid and whether a version file was merged
AppliedLayer(c) == [ uid |-> c.m_uid, merged |-> ~getVersionFile(c).null ]

ProfileOf(cs) == [ null |-> FALSE, applied |-> [ i \in 1..Len(cs) |-> AppliedLayer(cs[i]) ] ]

reapplyPatches(S, throws) ==
    IF throws /\ Len(S.components) > 0
    THEN [ S EXCEPT !.m_profile = NoProfile ]
    ELSE [ S EXCEPT !.m_profile = ProfileOf(S.components) ]

----------------------------------------------------------------------------
(* Legacy migration *)

NoOldConfig == [ u \in {} |-> "" ]

getOldConfigVersion(S, uid) ==
    IF uid \in DOMAIN S.m_oldConfigVersions THEN S.m_oldConfigVersions[uid] ELSE ""

upgradeDeprecatedFiles(S, io) ==
    LET fromCustom == ~S.legacy.custom.null
        fromVersion == ~fromCustom /\ ~S.legacy.version.null
        source == IF fromCustom THEN S.legacy.custom ELSE S.legacy.version
        \* QFile::rename(renameFile, renameFile + ".old")
        mustRename == fromCustom /\ ~S.legacy.version.null
        renameFails == io.upgrade = "renameOld" \/ S.legacy.versionOld
        S1 == IF mustRename
              THEN [ S EXCEPT !.legacy.version = NullFile, !.legacy.versionOld = TRUE ]
              ELSE S
        file == [ source EXCEPT !.uid = "net.minecraft", !.name = "Minecraft" ]
        S2 == [ S1 EXCEPT !.patches["net.minecraft"] = file ]
        \* QFile::rename(sourceFile, sourceFile + ".old")
        srcRenameFails == io.upgrade = "renameSrc"
                          \/ (IF fromCustom THEN S.legacy.customOld ELSE S1.legacy.versionOld)
        S3 == IF fromCustom
              THEN [ S2 EXCEPT !.legacy.custom = NullFile, !.legacy.customOld = TRUE ]
              ELSE [ S2 EXCEPT !.legacy.version = NullFile, !.legacy.versionOld = TRUE ]
    IN  IF ~(fromCustom \/ fromVersion) \/ ~S.patches["net.minecraft"].null THEN S
        ELSE IF io.upgrade = "ensure" THEN S
        ELSE IF mustRename /\ renameFails THEN S
        ELSE IF io.upgrade \in { "open", "commit" } THEN S1
        ELSE IF srcRenameFails THEN S2
        ELSE S3

\* the lambda addBuiltinPatch of loadPreComponentConfig
addBuiltinPatch(S, uid, order) ==
    LET intendedVersion == getOldConfigVersion(S, uid)
        parsed == S.patches[uid]
        file == IF parsed.version = "" THEN [ parsed EXCEPT !.version = intendedVersion ] ELSE parsed
        custom == [ ComponentFile(uid, file, PatchPath(uid)) EXCEPT
                        !.m_isVanilla = FALSE, !.m_isRevertible = TRUE ]
        remote == [ ComponentMeta(MetaGet(uid, intendedVersion)) EXCEPT !.m_isVanilla = TRUE ]
    IN  setOrder(IF ~parsed.null THEN custom ELSE remote, order)

Builtins == { "net.minecraft", "org.lwjgl" }

\* the scan of patches/*.json: QMap<uid, component>, the last file of a uid wins
ScannedPatches(S) ==
    LET names == { n \in Uids : ~S.patches[n].null /\ S.patches[n].uid \notin Builtins }
        keys == { S.patches[n].uid : n \in names }
        fileOf(u) == CHOOSE n \in names :
                        /\ S.patches[n].uid = u
                        /\ \A m \in names : S.patches[m].uid = u => UidRank(m) <= UidRank(n)
        patchOf(u) == [ ComponentFile(u, S.patches[fileOf(u)], PatchPath(fileOf(u))) EXCEPT
                            !.m_isRemovable = TRUE, !.m_isMovable = TRUE,
                            !.m_isRevertible = (u \in MetaUids) ]
    IN  [ u \in keys |-> patchOf(u) ]

\* the lambda loadSpecial of loadPreComponentConfig
loadSpecial(S, loadedPatches, uid, order) ==
    LET patchVersion == getOldConfigVersion(S, uid)
        patch == [ setOrder(ComponentMeta(MetaGet(uid, patchVersion)), order) EXCEPT
                       !.m_isVanilla = TRUE, !.m_isRemovable = TRUE, !.m_isMovable = TRUE ]
    IN  IF patchVersion # "" /\ uid \notin DOMAIN loadedPatches
        THEN ( uid :> patch ) @@ loadedPatches
        ELSE loadedPatches

RECURSIVE TakeUserOrder(_, _)
\* the uids of userOrder that loadedPatches.take(uid) yields, in order
TakeUserOrder(userOrder, remaining) ==
    IF userOrder = <<>> THEN <<>>
    ELSE LET uid == Head(userOrder)
         IN  IF uid \in Builtins \/ uid \notin remaining
             THEN TakeUserOrder(Tail(userOrder), remaining)
             ELSE <<uid>> \o TakeUserOrder(Tail(userOrder), remaining \ {uid})

RECURSIVE SortedKeys(_)
\* QMultiMap::keys(): every key, ascending, once per entry
SortedKeys(orders) ==
    IF orders = <<>> THEN <<>>
    ELSE InsertSorted(SortedKeys(Tail(orders)), Head(orders))

\* QMultiMap::values(key): the entries of the key, most recently inserted first
MultiMapValues(inserted, key) ==
    LET hasKey(c) == getOrder(c) = key
    IN  Reverse(SelectSeq(inserted, hasKey))

\* the loop over files.keys() that appends files.values(order)
LeftoverOrder(loadedPatches, left) ==
    LET valuesOf(inserted, keys) ==
            Concat([ i \in 1..Len(keys) |-> MultiMapValues(inserted, keys[i]) ])
        insertAll(inserted) ==
            valuesOf(inserted, SortedKeys([ i \in 1..Len(inserted) |-> getOrder(inserted[i]) ]))
        inOrder(uids) == insertAll([ i \in 1..Len(uids) |-> loadedPatches[uids[i]] ])
    IN  inOrder(SortUids(left))

\* the list of components loadPreComponentConfig builds
MigratedComponents(S) ==
    LET ordered(loadedPatches, taken) ==
            << addBuiltinPatch(S, "net.minecraft", BuiltinOrderMinecraft),
               addBuiltinPatch(S, "org.lwjgl", BuiltinOrderLwjgl) >>
            \o [ i \in 1..Len(taken) |-> loadedPatches[taken[i]] ]
            \o LeftoverOrder(loadedPatches,
                             DOMAIN loadedPatches \ { taken[i] : i \in 1..Len(taken) })
        userOrdered(loadedPatches) ==
            ordered(loadedPatches, TakeUserOrder(S.legacy.order.uids, DOMAIN loadedPatches))
    IN  userOrdered(loadSpecial(S, loadSpecial(S, ScannedPatches(S), "net.minecraftforge", ForgeOrder),
                                "com.mumfrey.liteloader", LiteloaderOrder))

loadPreComponentConfig(S, io) ==
    LET result(S1, saved) == [ ret |-> saved.ret, S |-> [ S1 EXCEPT !.manifest = saved.manifest ] ]
        migrate(S1) == result(S1, saveComponentList(S1.manifest, MigratedComponents(S1), io.save))
    IN  migrate(upgradeDeprecatedFiles(S, io))

----------------------------------------------------------------------------
(* load, reload *)

IndexOf(cs) ==
    [ u \in { cs[i].m_uid : i \in 1..Len(cs) } |->
        cs[CHOOSE i \in 1..Len(cs) :
              cs[i].m_uid = u /\ \A j \in 1..Len(cs) : cs[j].m_uid = u => j <= i] ]

load(S, io) ==
    LET reset(S1, newComponents) ==
            Emit([ S1 EXCEPT !.components = newComponents,
                             !.componentIndex = IndexOf(newComponents) ], "reset")
        read(S1) == reset(S1, loadComponentList(S1.manifest, io.read).container)
        migrated(pre) == IF ~pre.ret THEN pre.S ELSE read(pre.S)
    IN  IF S.manifest.exists THEN read(S) ELSE migrated(loadPreComponentConfig(S, io))

reload(S, io) == reapplyPatches(load(S, io), io.throws)

----------------------------------------------------------------------------
(* Edit operations.  Indices are those of the code (0-based); the component *)
(* at index i is components[i + 1].                                         *)

getComponent(S, index) == S.components[index + 1]

ValidIndex(S, index) == index >= 0 /\ index < Len(S.components)

\* ComponentList::appendComponent without the test for a uid already present
appendComponent_NoDuplicateTest(S, patch) ==
    LET id == getID(patch)
    IN  IF id = "" THEN S
        ELSE scheduleSave(Emit([ S EXCEPT !.components = Append(@, patch),
                                          !.componentIndex = ( id :> patch ) @@ @ ], "insert"))

appendComponent(S, patch) ==
    LET id == getID(patch)
    IN  IF id = "" THEN S
        ELSE IF id \in DOMAIN S.componentIndex THEN S
        ELSE scheduleSave(Emit([ S EXCEPT !.components = Append(@, patch),
                                          !.componentIndex = ( id :> patch ) @@ @ ], "insert"))

getFreeOrderNumber(S) ==
    LET orders == { getOrder(S.components[i]) : i \in 1..Len(S.components) } \cup { FreeOrderBase }
    IN  (CHOOSE m \in orders : \A o \in orders : o <= m) + 1

removeComponent_internal(S, patch, io) ==
    LET fileName == patch.m_filename
        hasFile == fileName # NoPath /\ FileExists(S, fileName)
        S1 == IF hasFile THEN [ S EXCEPT !.patches[fileName[2]] = NullFile ] ELSE S
        jarMods == getVersionFile(patch).jarMods
        present == { jarMods[i] : i \in 1..Len(jarMods) } \cap S.jarmods
        S2 == [ S1 EXCEPT !.jarmods = @ \ (present \ io.jarRemove) ]
    IN  IF hasFile /\ ~io.remove THEN [ ret |-> FALSE, S |-> S ]
        ELSE [ ret |-> (present \cap io.jarRemove = {}), S |-> S2 ]

\* ComponentList::remove(int) without the test that the component is removable
remove_NoRemovableTest(S, index, io) ==
    LET patch == getComponent(S, index)
        removeRow(S1) ==
            Emit([ S1 EXCEPT !.components = RemoveAt(@, index + 1),
                             !.componentIndex = [ u \in DOMAIN @ \ { getID(patch) } |-> @[u] ] ],
                 "remove")
        after(internal) ==
            IF ~internal.ret THEN [ ret |-> FALSE, S |-> internal.S ]
            ELSE [ ret |-> TRUE,
                   S |-> scheduleSave(reapplyPatches(removeRow(internal.S), io.throws)) ]
    IN  after(removeComponent_internal(S, patch, io))

\* ComponentList::remove(int) that leaves the uid of the removed row in the index
remove_NoIndexErase(S, index, io) ==
    LET patch == getComponent(S, index)
        removeRow(S1) == Emit([ S1 EXCEPT !.components = RemoveAt(@, index + 1) ], "remove")
        after(internal) ==
            IF ~internal.ret THEN [ ret |-> FALSE, S |-> internal.S ]
            ELSE [ ret |-> TRUE,
                   S |-> scheduleSave(reapplyPatches(removeRow(internal.S), io.throws)) ]
    IN  IF ~isRemovable(patch) THEN [ ret |-> FALSE, S |-> S ]
        ELSE after(removeComponent_internal(S, patch, io))

remove(S, index, io) ==
    LET patch == getComponent(S, index)
        removeRow(S1) ==
            Emit([ S1 EXCEPT !.components = RemoveAt(@, index + 1),
                             !.componentIndex = [ u \in DOMAIN @ \ { getID(patch) } |-> @[u] ] ],
                 "remove")
        after(internal) ==
            IF ~internal.ret THEN [ ret |-> FALSE, S |-> internal.S ]
            ELSE [ ret |-> TRUE,
                   S |-> scheduleSave(reapplyPatches(removeRow(internal.S), io.throws)) ]
    IN  IF ~isRemovable(patch) THEN [ ret |-> FALSE, S |-> S ]
        ELSE after(removeComponent_internal(S, patch, io))

\* ComponentList::remove(QString): remove(i) for the first component with the id
remove_QString(S, id, io) ==
    LET found == { i \in 0..(Len(S.components) - 1) : getID(getComponent(S, i)) = id }
    IN  IF found = {} THEN [ ret |-> FALSE, S |-> S ]
        ELSE remove(S, CHOOSE i \in found : \A j \in found : i <= j, io)

RECURSIVE revertToVanillaLoop(_, _, _)
\* the loop of revertToVanilla over the copy of the list taken at its start
revertToVanillaLoop(S, copy, io) ==
    IF copy = <<>> THEN [ ret |-> TRUE, S |-> S ]
    ELSE LET it == Head(copy)
             after(removed) ==
                 IF ~removed.ret THEN removed
                 ELSE revertToVanillaLoop(removed.S, Tail(copy), io)
         IN  IF ~isCustom(it) THEN revertToVanillaLoop(S, Tail(copy), io)
             ELSE IF isRevertible(it) \/ isRemovable(it)
             THEN after(remove_QString(S, getID(it), io))
             ELSE revertToVanillaLoop(S, Tail(copy), io)

revertToVanilla(S, io) ==
    LET after(loop) == [ ret |-> loop.ret,
                         S |-> scheduleSave(reapplyPatches(loop.S, io.throws)) ]
    IN  after(revertToVanillaLoop(S, S.components, io))

customizeComponent_internal(S, patch, io) ==
    LET written == [ S EXCEPT !.patches[getID(patch)] = getVersionFile(patch) ]
    IN  IF isCustom(patch) THEN [ ret |-> FALSE, S |-> S ]
        ELSE IF io.patch \in { "ensure", "open" } THEN [ ret |-> FALSE, S |-> S ]
        ELSE IF getVersionFile(patch).null THEN [ ret |-> FALSE, S |-> S ]
        ELSE IF io.patch = "commit" THEN [ ret |-> FALSE, S |-> S ]
        ELSE [ ret |-> TRUE, S |-> load(written, io) ]

customize(S, index, io) ==
    LET patch == getComponent(S, index)
        after(internal) ==
            IF ~internal.ret THEN [ ret |-> FALSE, S |-> internal.S ]
            ELSE [ ret |-> TRUE, S |-> scheduleSave(reapplyPatches(internal.S, io.throws)) ]
    IN  IF ~isCustomizable(patch) THEN [ ret |-> FALSE, S |-> S ]
        ELSE after(customizeComponent_internal(S, patch, io))

revertComponent_internal(S, patch, io) ==
    LET filename == patch.m_filename
        killed == [ S EXCEPT !.patches[filename[2]] = NullFile ]
    IN  IF ~isCustom(patch) THEN [ ret |-> TRUE, S |-> S ]
        ELSE IF ~FileExists(S, filename) THEN [ ret |-> TRUE, S |-> S ]
        ELSE [ ret |-> io.remove, S |-> load(IF io.remove THEN killed ELSE S, io) ]

revertToBase(S, index, io) ==
    LET patch == getComponent(S, index)
        after(internal) ==
            IF ~internal.ret THEN [ ret |-> FALSE, S |-> internal.S ]
            ELSE [ ret |-> TRUE, S |-> scheduleSave(reapplyPatches(internal.S, io.throws)) ]
    IN  IF ~isRevertible(patch) THEN [ ret |-> FALSE, S |-> S ]
        ELSE after(revertComponent_internal(S, patch, io))

MoveUp == "up"
MoveDown == "down"

\* ComponentList::move that aims at index - 1 whatever the direction
move_IgnoresDirection(S, index, direction, throws) ==
    LET rowCount == Len(S.components)
        their0 == index - 1
        their1 == IF their0 >= rowCount THEN rowCount - 1 ELSE their0
        theirIndex == IF their1 = -1 THEN rowCount - 1 ELSE their1
        from == getComponent(S, index)
        to == getComponent(S, theirIndex)
    IN  IF index < 0 \/ index >= rowCount THEN S
        ELSE IF index = theirIndex THEN S
        ELSE IF ~isMoveable(to) \/ ~isMoveable(from) THEN S
        ELSE scheduleSave(reapplyPatches(
                 Emit([ S EXCEPT !.components = Swap(@, index + 1, theirIndex + 1) ], "move"),
                 throws))

\* ComponentList::move without the test that both components are movable
move_NoMovableTest(S, index, direction, throws) ==
    LET rowCount == Len(S.components)
        their0 == IF direction = MoveUp THEN index - 1 ELSE index + 1
        their1 == IF their0 >= rowCount THEN rowCount - 1 ELSE their0
        theirIndex == IF their1 = -1 THEN rowCount - 1 ELSE their1
    IN  IF index < 0 \/ index >= rowCount THEN S
        ELSE IF index = theirIndex THEN S
        ELSE scheduleSave(reapplyPatches(
                 Emit([ S EXCEPT !.components = Swap(@, index + 1, theirIndex + 1) ], "move"),
                 throws))

move(S, index, direction, throws) ==
    LET rowCount == Len(S.components)
        their0 == IF direction = MoveUp THEN index - 1 ELSE index + 1
        their1 == IF their0 >= rowCount THEN rowCount - 1 ELSE their0
        theirIndex == IF their1 = -1 THEN rowCount - 1 ELSE their1
        from == getComponent(S, index)
        to == getComponent(S, theirIndex)
    IN  IF index < 0 \/ index >= rowCount THEN S
        ELSE IF index = theirIndex THEN S
        ELSE IF ~isMoveable(to) \/ ~isMoveable(from) THEN S
        ELSE scheduleSave(reapplyPatches(
                 Emit([ S EXCEPT !.components = Swap(@, index + 1, theirIndex + 1) ], "move"),
                 throws))

\* the values a call of move hands back to its caller: move is declared void
moveReturns(S, index, direction, throws) == {}

----------------------------------------------------------------------------
(* Installing jar mods and a custom jar *)

Sources == { "A", "B" }

JarModName(path) == IF path = "A" THEN "A (jar mod)" ELSE "B (jar mod)"
CustomJarName(path) == IF path = "A" THEN "A (custom jar)" ELSE "B (custom jar)"

RECURSIVE InstallJarModsLoop(_, _, _, _, _)
\* the for loop of installJarMods_internal; k is the position of Head(filepaths)
InstallJarModsLoop(S, filepaths, uuids, k, io) ==
    IF filepaths = <<>> THEN [ ret |-> TRUE, S |-> S ]
    ELSE LET id == Head(uuids)
             target_id == JarModUid(id)
             copied == [ S EXCEPT !.jarmods = @ \cup { id } ]
             f == VFile(target_id, "", JarModName(Head(filepaths)), getFreeOrderNumber(S), <<id>>, "")
             written == [ copied EXCEPT !.patches[target_id] = f ]
             patch == [ ComponentFile(target_id, f, PatchPath(target_id)) EXCEPT
                            !.m_isMovable = TRUE, !.m_isRemovable = TRUE ]
         IN  IF id \in S.jarmods THEN [ ret |-> FALSE, S |-> S ]
             ELSE IF io.copy = k THEN [ ret |-> FALSE, S |-> S ]
             ELSE IF io.patch = "open" THEN [ ret |-> FALSE, S |-> copied ]
             ELSE InstallJarModsLoop(appendComponent(written, patch),
                                     Tail(filepaths), Tail(uuids), k + 1, io)

installJarMods_internal(S, filepaths, uuids, io) ==
    LET after(loop) ==
            IF ~loop.ret THEN loop
            ELSE [ ret |-> TRUE, S |-> reapplyPatches(scheduleSave(loop.S), io.throws) ]
    IN  IF io.patch = "ensure" THEN [ ret |-> FALSE, S |-> S ]
        ELSE after(InstallJarModsLoop(S, filepaths, uuids, 1, io))

installCustomJar_internal(S, filepath, io) ==
    LET target_id == "customjar"
        removed == [ S EXCEPT !.libJar = "" ]
        copied == [ S EXCEPT !.libJar = filepath ]
        f == VFile(target_id, "", CustomJarName(filepath), getFreeOrderNumber(S), <<>>, filepath)
        written == [ copied EXCEPT !.patches[target_id] = f ]
        patch == [ ComponentFile(target_id, f, PatchPath(target_id)) EXCEPT
                       !.m_isMovable = TRUE, !.m_isRemovable = TRUE ]
    IN  IF io.patch = "ensure" THEN [ ret |-> FALSE, S |-> S ]
        ELSE IF S.libJar # "" /\ ~io.remove THEN [ ret |-> FALSE, S |-> S ]
        ELSE IF io.copy = 1 THEN [ ret |-> FALSE, S |-> removed ]
        ELSE IF io.patch = "open" THEN [ ret |-> FALSE, S |-> copied ]
        ELSE [ ret |-> TRUE,
               S |-> reapplyPatches(scheduleSave(appendComponent(written, patch)), io.throws) ]

\* where the process may die while a file is being written: after open()
\* returned, or with a leading part of the data written
CrashPoints == { "opened", "writing" }

\* a file of length zero, as QFile::open(WriteOnly) leaves the target
EmptyFile == [ NullFile EXCEPT !.null = FALSE ]

\* a leading part of the data
PartOf(data) == [ EmptyFile EXCEPT !.uid = data.uid, !.version = data.version ]

\* QSaveFile open / write / commit: the data goes to a temporary file that
\* commit() renames over the target, so until then the target keeps old
QSaveFile_crash(old, data, point) == old

\* QFile open(WriteOnly) / write / close: the target itself is truncated and
\* then filled
QFile_crash(old, data, point) == IF point = "opened" THEN EmptyFile ELSE PartOf(data)

\* the version file installJarMods_internal synthesises for one jar
JarModFile(S, id, filepath) ==
    VFile(JarModUid(id), "", JarModName(filepath), getFreeOrderNumber(S), <<id>>, "")

\* the version file installCustomJar_internal synthesises
CustomJarFile(S, filepath) ==
    VFile("customjar", "", CustomJarName(filepath), getFreeOrderNumber(S), <<>>, filepath)

\* target files as a death of the process at point leaves them: the manifest
\* in saveComponentList (save and migration), the patch in
\* upgradeDeprecatedFiles, customizeComponent_internal,
\* installJarMods_internal and installCustomJar_internal
saveComponentList_crash(old, container, point) ==
    QSaveFile_crash(old, ManifestOf(container), point)

upgradeDeprecatedFiles_crash(S, file, point) ==
    QSaveFile_crash(S.patches["net.minecraft"], file, point)

customizeComponent_crash(S, patch, point) ==
    QSaveFile_crash(S.patches[getID(patch)], getVersionFile(patch), point)

installJarMods_crash(S, id, filepath, point) ==
    QFile_crash(S.patches[JarModUid(id)], JarModFile(S, id, filepath), point)

installCustomJar_crash(S, filepath, point) ==
    QFile_crash(S.patches["customjar"], CustomJarFile(S, filepath), point)

setOldConfigVersion(S, uid, version) ==
    IF version = "" THEN S
    ELSE [ S EXCEPT !.m_oldConfigVersions = ( uid :> version ) @@
                        [ u \in DOMAIN @ \ { uid } |-> @[u] ] ]

----------------------------------------------------------------------------
(* Inputs *)

\* legacy version.json: its minecraftVersion is kept in the version field
LegacyVersionJson == VFile("", "1.7.10", "", 0, <<>>, "")

LegacyPatch(u, order) == VFile(u, "1.0", "", order, <<>>, "")

\* manifest entries as a hand-edited file may hold them
ValidEntry == [ uid |-> "net.minecraft", currentVersion |-> "1.7.10", cachedName |-> "Minecraft" ]

\* an entry without the required "uid"
InvalidEntry == [ cachedName |-> "Mod A" ]

\* manifests that exist and that loadComponentList rejects: not JSON, a
\* format version other than 1, an invalid entry after a valid one
NotJsonManifest ==
    [ exists |-> TRUE, json |-> FALSE, formatVersion |-> 0, components |-> <<>> ]

WrongVersionManifest ==
    [ exists |-> TRUE, json |-> TRUE, formatVersion |-> currentComponentsFileVersion + 1,
      components |-> << ValidEntry >> ]

InvalidEntryManifest ==
    [ exists |-> TRUE, json |-> TRUE, formatVersion |-> currentComponentsFileVersion,
      components |-> << ValidEntry, InvalidEntry >> ]

RejectedManifests == { NotJsonManifest, WrongVersionManifest, InvalidEntryManifest }

\* instance directories a list is first opened on, with the versions that
\* instance.cfg hands to setOldConfigVersion
InitialLayouts ==
    { [ patches |-> NoPatches, manifest |-> NoManifest,
        legacy |-> [ NoLegacy EXCEPT !.version = LegacyVersionJson ],
        oldConfig |-> << >> ],
      [ patches |-> NoPatches, manifest |-> NotJsonManifest,
        legacy |-> NoLegacy, oldConfig |-> << >> ],
      [ patches |-> NoPatches, manifest |-> WrongVersionManifest,
        legacy |-> NoLegacy, oldConfig |-> << >> ],
      [ patches |-> NoPatches, manifest |-> InvalidEntryManifest,
        legacy |-> NoLegacy, oldConfig |-> << >> ],
      [ manifest |-> NoManifest, patches |-> [ NoPatches EXCEPT !["mod.a"] = LegacyPatch("mod.a", 5),
                                       !["mod.b"] = LegacyPatch("mod.b", 5) ],
        legacy |-> [ NoLegacy EXCEPT !.order = [ exists |-> TRUE, uids |-> << "net.minecraftforge" >> ] ],
        oldConfig |-> << << "net.minecraftforge", "10.13" >>, << "org.lwjgl", "" >> >> ] }

\* components callers hand to appendComponent
ForgeRemote ==
    [ ComponentMeta(MetaGet("net.minecraftforge", "10.13")) EXCEPT
          !.m_isVanilla = TRUE, !.m_isRemovable = TRUE, !.m_isMovable = TRUE ]

ModLocal ==
    [ ComponentFile("mod.a", VFile("mod.a", "", "Mod A", 5, <<>>, ""), PatchPath("mod.a")) EXCEPT
          !.m_isRemovable = TRUE, !.m_isMovable = TRUE, !.m_isRevertible = TRUE ]

EmptyUid == ComponentUidFilename("", NoPath)

AppendInputs == { ForgeRemote, ModLocal, EmptyUid }

PathLists == { fp \in UNION { [ 1..n -> Sources ] : n \in 1..MaxPaths } :
                 \A i \in 1..Len(fp) : fp[i] = (IF i = 1 THEN "A" ELSE "B") }

\* QUuid::createUuid(): identifiers not in use anywhere
UuidFresh(S, id) ==
    /\ id \notin S.jarmods
    /\ S.patches[JarModUid(id)].null
    /\ JarModUid(id) \notin DOMAIN S.componentIndex
    /\ \A k \in 1..Len(S.manifest.components) : ensureString(S.manifest.components[k], "uid") # JarModUid(id)

\* n fresh identifiers; which of the unused ones come out is immaterial, so the
\* first n in a fixed order stand for all choices
FreshUuids(S, n) ==
    LET isFresh(id) == UuidFresh(S, id)
        fresh == SelectSeq(<< "u1", "u2" >>, isFresh)
    IN  IF Len(fresh) >= n THEN { SubSeq(fresh, 1, n) } ELSE {}

MaxOrder == 101         \* largest free order number at which an install still starts

----------------------------------------------------------------------------
(* The state machine *)

\* name: the operation; ok: the value it returned (for appendComponent and move,
\* whether the sequence changed; for timeout and destroy, whether every write
\* succeeded); saves: its calls of save(); uid: the uid it was about
NoOp == [ name |-> "construct", ok |-> TRUE, saves |-> 0, uid |-> "" ]

Op(n, ok, S, uid) == [ name |-> n, ok |-> ok, saves |-> S.saves, uid |-> uid ]

\* operations that neither add, remove nor reorder components
KeepsSequence == { "customize", "revertToBase", "timeout" }

Fault(io) == IF io = IoOk THEN 0 ELSE 1

Commit(S, op, io) ==
    /\ faults + Fault(io) <= MaxFaults
    /\ faults' = faults + Fault(io)
    /\ components' = S.components
    /\ componentIndex' = S.componentIndex
    /\ dirty' = S.dirty
    /\ m_saveTimer' = S.m_saveTimer
    /\ m_profile' = S.m_profile
    /\ m_oldConfigVersions' = S.m_oldConfigVersions
    /\ manifest' = S.manifest
    /\ patches' = S.patches
    /\ jarmods' = S.jarmods
    /\ libJar' = S.libJar
    /\ legacy' = S.legacy
    /\ since' = S.since
    /\ lastOp' = op
    /\ intended' = IF op.name \in KeepsSequence THEN intended ELSE UidsOf(S.components)
    /\ steps' = steps + 1
    /\ UNCHANGED alive

NoIndex == [ u \in {} |-> EmptyUid ]

RECURSIVE SetOldConfigVersions(_, _)
\* the calls of setOldConfigVersion the instance makes after construction
SetOldConfigVersions(S, pairs) ==
    IF pairs = <<>> THEN S
    ELSE SetOldConfigVersions(setOldConfigVersion(S, Head(pairs)[1], Head(pairs)[2]), Tail(pairs))

\* ComponentList::ComponentList
Constructed ==
    [ components |-> <<>>, componentIndex |-> NoIndex, dirty |-> FALSE,
      m_saveTimer |-> TimerStopped, m_profile |-> NoProfile,
      m_oldConfigVersions |-> NoOldConfig ]

Init ==
    /\ alive = TRUE
    /\ components = Constructed.components
    /\ componentIndex = Constructed.componentIndex
    /\ dirty = Constructed.dirty
    /\ m_saveTimer = Constructed.m_saveTimer
    /\ m_profile = Constructed.m_profile
    /\ \E layout \in InitialLayouts :
         /\ manifest = layout.manifest
         /\ patches = layout.patches
         /\ legacy = layout.legacy
         /\ m_oldConfigVersions =
              SetOldConfigVersions(Constructed, layout.oldConfig).m_oldConfigVersions
    /\ jarmods = {}
    /\ libJar = ""
    /\ lastOp = NoOp
    /\ since = 0
    /\ intended = <<>>
    /\ steps = 0
    /\ faults = 0

\* the instance is opened again: a new list on the directory as it stands
Construct ==
    /\ ~alive
    /\ steps < MaxSteps
    /\ steps' = steps + 1
    /\ alive' = TRUE
    /\ components' = Constructed.components
    /\ componentIndex' = Constructed.componentIndex
    /\ dirty' = Constructed.dirty
    /\ m_saveTimer' = Constructed.m_saveTimer
    /\ m_profile' = Constructed.m_profile
    /\ m_oldConfigVersions' = Constructed.m_oldConfigVersions
    /\ lastOp' = NoOp
    /\ since' = 0
    /\ intended' = <<>>
    /\ UNCHANGED << manifest, patches, jarmods, libJar, legacy, faults >>

\* the process dies between two operations and the instance is opened again:
\* no destructor runs, the files stay as they are and a new list is constructed
crashed(S) ==
    [ S EXCEPT !.components = Constructed.components,
               !.componentIndex = Constructed.componentIndex,
               !.dirty = Constructed.dirty,
               !.m_saveTimer = Constructed.m_saveTimer,
               !.m_profile = Constructed.m_profile,
               !.m_oldConfigVersions = Constructed.m_oldConfigVersions,
               !.since = 0 ]

\* ComponentList::~ComponentList that stops the timer and does not save
destroy_NoFlush(S, outcome) ==
    IF saveIsScheduled(S)
    THEN [ S EXCEPT !.m_saveTimer = TimerStopped, !.since = 0 ]
    ELSE S

\* ComponentList::~ComponentList
destroy(S, outcome) ==
    IF saveIsScheduled(S)
    THEN save([ S EXCEPT !.m_saveTimer = TimerStopped, !.since = 0 ], outcome)
    ELSE S

\* the object is gone afterwards: its fields are left at their constructed values
Destroy ==
    /\ alive
    /\ steps < MaxSteps
    /\ steps' = steps + 1
    /\ \E io \in SaveIos :
         \E S \in { destroy(Cur, io.save) } :
             /\ alive' = FALSE
             /\ components' = Constructed.components
             /\ componentIndex' = Constructed.componentIndex
             /\ dirty' = Constructed.dirty
             /\ m_saveTimer' = Constructed.m_saveTimer
             /\ m_profile' = Constructed.m_profile
             /\ m_oldConfigVersions' = Constructed.m_oldConfigVersions
             /\ manifest' = S.manifest
             /\ since' = 0
             /\ intended' = <<>>
             /\ lastOp' = Op("destroy", io = IoOk, S, "")
             /\ faults + Fault(io) <= MaxFaults
             /\ faults' = faults + Fault(io)
             /\ UNCHANGED << patches, jarmods, libJar, legacy >>

\* The outcomes an operation can meet in a state: a step the operation does
\* not reach cannot fail.  load() reads an existing manifest and migrates
\* only when there is none.
LoadIosAt(S) ==
    IF S.manifest.exists THEN { io \in LoadIos : io.save = "ok" /\ io.upgrade = "ok" }
    ELSE LoadIos

\* remove(), customize() and revertToBase() return at once when the flag of
\* the component is missing
RemoveIosAt(S, index) ==
    IF isRemovable(getComponent(S, index)) THEN RemoveIos ELSE { IoOk }

CustomizeIosAt(S, index) ==
    IF isCustomizable(getComponent(S, index))
    THEN PatchIos \cup LoadIosAt(S) \cup ThrowIos
    ELSE { IoOk }

RevertIosAt(S, index) ==
    IF isRevertible(getComponent(S, index)) THEN RemoveIos \cup LoadIosAt(S) ELSE { IoOk }

\* move() merges only after it swapped two rows
MoveIosAt(S, index, direction) ==
    LET rowCount == Len(S.components)
        their0 == IF direction = MoveUp THEN index - 1 ELSE index + 1
        their1 == IF their0 >= rowCount THEN rowCount - 1 ELSE their0
        theirIndex == IF their1 = -1 THEN rowCount - 1 ELSE their1
    IN  IF /\ index >= 0
           /\ index < rowCount
           /\ index # theirIndex
           /\ isMoveable(getComponent(S, theirIndex))
           /\ isMoveable(getComponent(S, index))
        THEN ThrowIos
        ELSE { IoOk }

\* installJarMods copies one file per path
InstallJarModsIosAt(filepaths) == { io \in InstallIos : io.copy <= Len(filepaths) }

\* installCustomJar copies one file and removes the old jar only if there is one
InstallCustomJarIosAt(S) ==
    { io \in InstallIos \cup RemoveIos :
        io.copy <= 1 /\ io.jarRemove = {} /\ (io.remove \/ S.libJar # "") }

Load ==
    /\ alive
    /\ steps < MaxSteps
    /\ \E io \in LoadIosAt(Cur) :
         \E S \in { load(Cur, io) } :
             /\ Commit(S, Op("load", TRUE, S, ""), io)

Reload ==
    /\ alive
    /\ steps < MaxSteps
    /\ \E io \in LoadIosAt(Cur) \cup ThrowIos :
         \E S \in { reload(Cur, io) } :
             /\ Commit(S, Op("reload", TRUE, S, ""), io)

AppendComponent ==
    /\ alive
    /\ steps < MaxSteps
    /\ Len(components) < MaxComponents
    /\ \E patch \in AppendInputs :
         \E S \in { appendComponent(Cur, patch) } :
             Commit(S, Op("appendComponent", S.components # components, S, getID(patch)), IoOk)

Remove ==
    /\ alive
    /\ steps < MaxSteps
    /\ \E index \in 0..(Len(components) - 1) : \E io \in RemoveIosAt(Cur, index) :
         \E r \in { remove(Cur, index, io) } :
             /\ Commit(r.S, Op("remove", r.ret, r.S, IF r.ret THEN getID(getComponent(Cur, index)) ELSE ""), io)

Customize ==
    /\ alive
    /\ steps < MaxSteps
    /\ \E index \in 0..(Len(components) - 1) : \E io \in CustomizeIosAt(Cur, index) :
         \E r \in { customize(Cur, index, io) } :
             /\ Commit(r.S, Op("customize", r.ret, r.S, IF r.ret THEN getID(getComponent(Cur, index)) ELSE ""), io)

RevertToBase ==
    /\ alive
    /\ steps < MaxSteps
    /\ \E index \in 0..(Len(components) - 1) : \E io \in RevertIosAt(Cur, index) :
         \E r \in { revertToBase(Cur, index, io) } :
             /\ Commit(r.S, Op("revertToBase", r.ret, r.S, IF r.ret THEN getID(getComponent(Cur, index)) ELSE ""), io)

RevertToVanilla ==
    /\ alive
    /\ steps < MaxSteps
    /\ \E io \in RemoveIos :
         \E r \in { revertToVanilla(Cur, io) } :
             Commit(r.S, Op("revertToVanilla", r.ret, r.S, ""), io)

Move ==
    /\ alive
    /\ steps < MaxSteps
    /\ \E index \in 0..Len(components), direction \in { MoveUp, MoveDown } :
       \E io \in MoveIosAt(Cur, index, direction) :
         \E S \in { move(Cur, index, direction, io.throws) } :
             /\ Commit(S, Op("move", S.components # components, S, ""), io)

InstallJarMods ==
    /\ alive
    /\ steps < MaxSteps
    /\ getFreeOrderNumber(Cur) <= MaxOrder
    /\ \E filepaths \in PathLists : \E io \in InstallJarModsIosAt(filepaths) :
         /\ Len(components) + Len(filepaths) <= MaxComponents
         /\ \E uuids \in FreshUuids(Cur, Len(filepaths)) :
              \E r \in { installJarMods_internal(Cur, filepaths, uuids, io) } :
                  /\ Commit(r.S, Op("installJarMods", r.ret, r.S, ""), io)

InstallCustomJar ==
    /\ alive
    /\ steps < MaxSteps
    /\ getFreeOrderNumber(Cur) <= MaxOrder
    /\ Len(components) < MaxComponents
    /\ \E filepath \in Sources, io \in InstallCustomJarIosAt(Cur) :
         \E r \in { installCustomJar_internal(Cur, filepath, io) } :
             /\ Commit(r.S, Op("installCustomJar", r.ret, r.S, "customjar"), io)

\* time passes while the single-shot timer runs
Tick ==
    /\ alive
    /\ m_saveTimer.active
    /\ m_saveTimer.elapsed < SaveInterval
    /\ m_saveTimer' = [ m_saveTimer EXCEPT !.elapsed = @ + TickMs ]
    /\ since' = since + TickMs
    /\ lastOp' = [ NoOp EXCEPT !.name = "tick" ]
    /\ UNCHANGED << alive, components, componentIndex, dirty, m_profile, m_oldConfigVersions,
                    manifest, patches, jarmods, libJar, legacy, faults, intended, steps >>

\* QTimer::timeout of a timer that is not single-shot: it keeps running
timeout_Repeating(S, outcome) ==
    save([ S EXCEPT !.m_saveTimer = TimerStarted, !.since = 0 ], outcome)

\* QTimer::timeout of the single-shot timer, connected to ComponentList::save
timeout(S, outcome) ==
    save([ S EXCEPT !.m_saveTimer = TimerStopped, !.since = 0 ], outcome)

\* The event loop delivers the expiry whatever the owner of the list does,
\* so it may also follow the last operation of a run.
Timeout ==
    /\ alive
    /\ steps <= MaxSteps
    /\ m_saveTimer.active
    /\ m_saveTimer.elapsed >= SaveInterval
    /\ \E io \in SaveIos :
         \E S \in { timeout(Cur, io.save) } :
             /\ Commit(S, Op("timeout", io = IoOk, S, ""), io)

Next ==
    \/ Construct
    \/ Destroy
    \/ Load
    \/ Reload
    \/ AppendComponent
    \/ Remove
    \/ Customize
    \/ RevertToBase
    \/ RevertToVanilla
    \/ Move
    \/ InstallJarMods
    \/ InstallCustomJar
    \/ Tick
    \/ Timeout

Spec == Init /\ [][Next]_vars

\* an instance directory whose manifest, if there is one, is well formed
FairInit == Init /\ manifest \notin RejectedManifests

\* The timer lives on the event loop of the thread that owns the list: while
\* it is pending time passes, and once it is due the loop delivers timeout.
FairSpec == FairInit /\ [][Next]_vars /\ WF_vars(Tick) /\ WF_vars(Timeout)

----------------------------------------------------------------------------
(* Properties *)

DistinctUids(cs) == \A i, j \in 1..Len(cs) : i # j => cs[i].m_uid # cs[j].m_uid

NonEmptyUids(cs) == \A i \in 1..Len(cs) : cs[i].m_uid # ""

HasUid(cs, u) == \E i \in 1..Len(cs) : cs[i].m_uid = u

ManifestUids ==
    [ i \in 1..Len(manifest.components) |-> ensureString(manifest.components[i], "uid") ]

SaveOutcomes == { "ok", "open", "write", "commit" }

\* C1: for every list whose uids are non-empty and pairwise distinct, save()
\* followed by load(), with no I/O failure, yields a list of the same length
\* that agrees with it position by position on uid, currentVersion and
\* cachedName.
C1_SaveLoadRoundTrip ==
    (alive /\ NonEmptyUids(components) /\ DistinctUids(components)) =>
        LET loaded == load(save(Cur, "ok"), IoOk).components
        IN  /\ Len(loaded) = Len(components)
            /\ \A i \in 1..Len(components) :
                 /\ loaded[i].m_uid = components[i].m_uid
                 /\ loaded[i].m_currentVersion = components[i].m_currentVersion
                 /\ loaded[i].cachedName = components[i].cachedName

\* a list that was saved and loaded again holds a component whose name came
\* back from the manifest and whose version, omitted there, came back empty
C1_Witness ==
    /\ lastOp.name = "load"
    /\ DistinctUids(components)
    /\ manifest.exists
    /\ Len(manifest.components) = Len(components)
    /\ \E i \in 1..Len(components) :
         /\ components[i].m_uid = "mod.a"
         /\ components[i].cachedName = "Mod A"
         /\ components[i].m_currentVersion = ""
         /\ components[i].m_file.null
         /\ "currentVersion" \notin DOMAIN manifest.components[i]
         /\ "cachedName" \in DOMAIN manifest.components[i]

\* C2: in every reachable state no two components of the sequence have the
\* same uid, also in a list the migrator produced from legacy patches that
\* carry the same order hint.  Stated for runs in which no filesystem step
\* failed.
C2_UniqueUids == (faults = 0) => DistinctUids(components)

\* C3: appendComponent(c) with c.uid empty or already present in the list is
\* a no-op: sequence, uid index and dirty flag are unchanged, the save timer is
\* not (re)started and no row-insert notification is emitted.
C3_RejectedAppendIsNoOp ==
    \A patch \in AppendInputs \cup { components[i] : i \in 1..Len(components) } :
        (getID(patch) = "" \/ HasUid(components, getID(patch))) =>
            LET S == appendComponent(Cur, patch)
            IN  /\ S.components = components
                /\ S.componentIndex = componentIndex
                /\ S.dirty = dirty
                /\ S.m_saveTimer = m_saveTimer
                /\ S.signals = <<>>

\* an append of a uid already in the list was turned down while the timer of
\* an earlier edit had been running for a while
C3_Witness ==
    /\ lastOp.name = "appendComponent"
    /\ ~lastOp.ok
    /\ lastOp.uid # ""
    /\ HasUid(components, lastOp.uid)
    /\ m_saveTimer.active
    /\ m_saveTimer.elapsed > 0

\* C4: in every reachable state, for every component c of the list, isCustom(c)
\* holds exactly if the patch file <root>/patches/<c.uid>.json exists.  Stated
\* for runs in which no filesystem step failed.
C4_CustomIffPatchFile ==
    (faults = 0) => \A i \in 1..Len(components) :
        isCustom(components[i]) <=> FileExists(Cur, PatchPath(components[i].m_uid))

\* C5: whenever customize(i) returns true, the component at that uid in the
\* resulting list is custom and revertible; whenever revertToBase then returns
\* true on it, the component at that uid is non-custom and non-revertible.
\* Stated for a customize in a run in which no filesystem step failed.
C5_CustomizeThenRevert ==
    (faults = 0 /\ lastOp.name = "customize" /\ lastOp.ok) =>
        /\ HasUid(components, lastOp.uid)
        /\ \A i \in 1..Len(components) :
             components[i].m_uid = lastOp.uid =>
                 /\ isCustom(components[i])
                 /\ isRevertible(components[i])
                 /\ \A io \in Ios :
                      LET r == revertToBase(Cur, i - 1, io)
                      IN  r.ret =>
                            \A j \in 1..Len(r.S.components) :
                                r.S.components[j].m_uid = lastOp.uid =>
                                    /\ ~isCustom(r.S.components[j])
                                    /\ ~isRevertible(r.S.components[j])

MutationOps == { "appendComponent", "remove", "customize", "revertToBase", "move",
                 "installJarMods", "installCustomJar", "revertToVanilla" }

\* C6: mutations that follow one another by less than the timer interval
\* cause no save() themselves and each restarts the timer; the timer performs
\* exactly one save(), not earlier than one interval after the last
\* scheduleSave; afterwards the list is clean and no timer is pending.
C6_DebouncedSave ==
    [][ /\ (lastOp'.name \in MutationOps) => lastOp'.saves = 0
        /\ (lastOp'.name \in MutationOps /\ dirty' /\ since' = 0) =>
               (m_saveTimer'.active /\ m_saveTimer'.elapsed = 0)
        /\ (lastOp'.name = "timeout") =>
               /\ dirty
               /\ since >= SaveInterval
               /\ lastOp'.saves = 1
               /\ ~dirty'
               /\ ~m_saveTimer'.active ]_vars

\* the timer saved a list that two edits, one interval apart at most, had built
C6_Witness ==
    /\ lastOp.name = "timeout"
    /\ lastOp.saves = 1
    /\ lastOp.ok
    /\ ~dirty
    /\ Len(components) >= 2
    /\ ManifestUids = UidsOf(components)

\* C7 as stated: destroying the list while dirty stops the timer and performs
\* exactly one save(), so the manifest on disk holds the final in-memory
\* sequence; destroying it while clean performs no save.
C7_DestroyFlushes_AsStated ==
    alive =>
        \A outcome \in SaveOutcomes :
            LET S == destroy(Cur, outcome)
            IN  IF dirty
                THEN /\ ~S.m_saveTimer.active
                     /\ S.saves = 1
                     /\ S.manifest = ManifestOf(components)
                ELSE S.saves = 0 /\ S.manifest = manifest

\* C7 amended: destroying the list while dirty stops the timer and performs
\* exactly one save(); if that save's write succeeds, the manifest on disk
\* holds the final in-memory sequence, otherwise it is left as it was;
\* destroying it while clean performs no save.
C7_DestroyFlushes ==
    alive =>
        \A outcome \in SaveOutcomes :
            LET S == destroy(Cur, outcome)
            IN  IF dirty
                THEN /\ ~S.m_saveTimer.active
                     /\ S.saves = 1
                     /\ S.manifest = IF outcome = "ok" THEN ManifestOf(components) ELSE manifest
                ELSE S.saves = 0 /\ S.manifest = manifest

\* a dirty list was destroyed and its sequence is in the manifest
C7_Witness ==
    /\ ~alive
    /\ lastOp.name = "destroy"
    /\ lastOp.saves = 1
    /\ lastOp.ok
    /\ Len(manifest.components) > 0

\* C8: after load() returns the list is clean: saveIsScheduled() is false and
\* no debounced save is pending, even when earlier edits had scheduled one.
\* Stated for runs in which no filesystem step failed.
C8_LoadLeavesClean ==
    (faults = 0 /\ lastOp.name = "load") => (~saveIsScheduled(Cur) /\ ~m_saveTimer.active)

\* C9: a save performed by the debounce timer writes a manifest that reflects
\* every list mutation (append, remove, move, install) completed before the
\* timer fired, whatever edit operations ran in between.  Stated for runs in
\* which no filesystem step failed.
C9_TimerSaveSeesMutations ==
    (faults = 0 /\ lastOp.name = "timeout" /\ lastOp.ok) => ManifestUids = intended

\* the position move(index, direction) aims at, as C10 states it
AdjacentIndex(index, direction) == IF direction = MoveUp THEN index - 1 ELSE index + 1

\* the position move(index, direction) exchanges with: the adjacent one, and
\* the last row for a move up of row 0
PartnerIndex(index, direction) ==
    IF direction = MoveUp
    THEN (IF index = 0 THEN Len(components) - 1 ELSE index - 1)
    ELSE index + 1

MoveExchanges(S, index, their) ==
    /\ ValidIndex(Cur, index)
    /\ ValidIndex(Cur, their)
    /\ S.components = Swap(components, index + 1, their + 1)
    /\ isMoveable(components[index + 1])
    /\ isMoveable(components[their + 1])

\* C10 as stated: move(index, direction) leaves the sequence unchanged or
\* exchanges the component at index with the one at index-1 (up) or index+1
\* (down), and changes it only if both are movable.
C10_MoveAdjacent_AsStated ==
    \A index \in (0 - 1)..Len(components), direction \in { MoveUp, MoveDown } :
        LET S == move(Cur, index, direction, FALSE)
        IN  \/ S.components = components
            \/ MoveExchanges(S, index, AdjacentIndex(index, direction))

\* C10 amended: move(index, direction) leaves the sequence unchanged or
\* exchanges the component at index with the one at index-1 (up; for index 0,
\* the last component) or index+1 (down), and changes it only if both are
\* movable.
C10_MoveAdjacent ==
    \A index \in (0 - 1)..Len(components), direction \in { MoveUp, MoveDown } :
        LET S == move(Cur, index, direction, FALSE)
        IN  \/ S.components = components
            \/ MoveExchanges(S, index, PartnerIndex(index, direction))

\* a move changed the order of a list of three
C10_Witness ==
    /\ lastOp.name = "move"
    /\ lastOp.ok
    /\ Len(components) >= 3
    /\ DistinctUids(components)

\* C11: for every list and every index i whose component and upper neighbour
\* are both movable, move(i, up) followed by move(i-1, down) restores the
\* sequence to exactly the order it had before the two calls, whether or not
\* a merge fails in either call.  Stated of every state in which the run may
\* still call an operation.
C11_MoveUpDownIdentity ==
    (alive /\ steps < MaxSteps) =>
        \A i \in 1..(Len(components) - 1), t1 \in BOOLEAN, t2 \in BOOLEAN :
            (isMoveable(getComponent(Cur, i)) /\ isMoveable(getComponent(Cur, i - 1))) =>
                \E up \in { move(Cur, i, MoveUp, t1) } :
                    /\ up.components = Swap(components, i + 1, i)
                    /\ move(up, i - 1, MoveDown, t2).components = components

\* a list of three movable, different components, the last move of which
\* changed the order
C11_Witness ==
    /\ lastOp.name = "move"
    /\ lastOp.ok
    /\ Len(components) = 3
    /\ DistinctUids(components)
    /\ \A i \in 1..3 : isMoveable(components[i])

\* the components move(index, direction) involves, when the call gets as far
\* as looking at them
MoveInvolvesUnmovable(index, direction) ==
    /\ ValidIndex(Cur, index)
    /\ PartnerIndex(index, direction) # index
    /\ ValidIndex(Cur, PartnerIndex(index, direction))
    /\ \/ ~isMoveable(getComponent(Cur, index))
       \/ ~isMoveable(getComponent(Cur, PartnerIndex(index, direction)))

\* remove, customize and revertToBase on a component without the flag the
\* operation asks for return false and change nothing: no field of the list,
\* no file, no signal, no save, whatever the filesystem steps of the operation
\* would have done
PreconditionFailuresChangeNothing ==
    (alive /\ steps < MaxSteps) =>
        /\ \E cur \in { Cur } : \E refused \in { [ ret |-> FALSE, S |-> cur ] } :
              \A index \in 0..(Len(components) - 1) :
                  /\ ~isRemovable(getComponent(cur, index)) =>
                         \A io \in RemoveIos : remove(cur, index, io) = refused
                  /\ ~isCustomizable(getComponent(cur, index)) =>
                         \A io \in PatchIos \cup LoadIos \cup ThrowIos :
                             customize(cur, index, io) = refused
                  /\ ~isRevertible(getComponent(cur, index)) =>
                         \A io \in RemoveIos \cup LoadIos :
                             revertToBase(cur, index, io) = refused
        /\ \A index \in 0..(Len(components) - 1), direction \in { MoveUp, MoveDown },
              throws \in BOOLEAN :
              MoveInvolvesUnmovable(index, direction) =>
                  move(Cur, index, direction, throws) = Cur

\* C12 as stated: when a mutation's precondition does not hold (remove on a
\* non-removable component, customize on a non-customizable one, revertToBase
\* on a non-revertible one, move involving a non-movable component), the
\* operation reports failure and leaves the sequence, the uid index, the files
\* on disk, the stored profile and the dirty flag unchanged.
C12_PreconditionFailure_AsStated ==
    /\ PreconditionFailuresChangeNothing
    /\ \A index \in 0..(Len(components) - 1), direction \in { MoveUp, MoveDown },
          throws \in BOOLEAN :
          MoveInvolvesUnmovable(index, direction) =>
              FALSE \in moveReturns(Cur, index, direction, throws)

\* C12 amended: when the precondition does not hold, remove, customize and
\* revertToBase return false and move, which returns nothing, returns; each
\* leaves the sequence, the uid index, the files on disk, the stored profile
\* and the dirty flag unchanged.  Stated of every state in which the run may
\* still call an operation.
C12_PreconditionFailure ==
    /\ PreconditionFailuresChangeNothing
    /\ \A index \in 0..(Len(components) - 1), direction \in { MoveUp, MoveDown },
          throws \in BOOLEAN :
          moveReturns(Cur, index, direction, throws) = {}

\* remove was refused on the built-in net.minecraft, with no filesystem step
\* failing, while the list was waiting for its save
C12_Witness ==
    /\ lastOp.name = "remove"
    /\ ~lastOp.ok
    /\ faults = 0
    /\ dirty
    /\ \A i \in 1..Len(components) :
          isRemovable(components[i]) <=> components[i].m_uid \notin Builtins
    /\ \E i \in 1..Len(components) : components[i].m_uid = "net.minecraft"

\* the outcomes in which one filesystem step fails
FsFaults == { io \in IoFaults : ~io.throws }

\* what C13 says of the result r of an operation in which a filesystem step
\* failed, r0 being the result had every step succeeded
FailsAndReapplies(r, r0) ==
    (r # r0) => (~r.ret /\ r.S.m_profile = ProfileOf(r.S.components))

\* C13: when a filesystem step fails during remove, customize, revertToBase,
\* installJarMods or installCustomJar, the operation returns false and
\* reapplyPatches has been invoked before it returns, so the stored profile is
\* the merge of the sequence as it stands after the failed operation.  Stated
\* for calls made while the stored profile is the merge of the sequence, in
\* runs in which no earlier step failed.
C13_FailureReappliesPatches ==
    (faults = 0 /\ m_profile = ProfileOf(components)) =>
        \A io \in FsFaults :
            /\ \A index \in 0..(Len(components) - 1) :
                  /\ FailsAndReapplies(remove(Cur, index, io), remove(Cur, index, IoOk))
                  /\ FailsAndReapplies(customize(Cur, index, io), customize(Cur, index, IoOk))
                  /\ FailsAndReapplies(revertToBase(Cur, index, io),
                                       revertToBase(Cur, index, IoOk))
            /\ \A filepaths \in PathLists :
                  \A uuids \in FreshUuids(Cur, Len(filepaths)) :
                      FailsAndReapplies(installJarMods_internal(Cur, filepaths, uuids, io),
                                        installJarMods_internal(Cur, filepaths, uuids, IoOk))
            /\ \A filepath \in Sources :
                  FailsAndReapplies(installCustomJar_internal(Cur, filepath, io),
                                    installCustomJar_internal(Cur, filepath, IoOk))

EditOps == { "appendComponent", "remove", "move", "customize", "revertToBase",
             "installJarMods", "installCustomJar", "revertToVanilla" }

\* C15: after any edit operation that changed the list returns, the stored
\* launch profile is the one obtained by applying exactly the components of
\* the current sequence in their current order.  Stated for runs in which no
\* filesystem step failed and no merge raised.
C15_ProfileFollowsEdits ==
    (faults = 0 /\ lastOp.name \in EditOps /\ lastOp.ok) =>
        m_profile = ProfileOf(components)

\* the customised built-in net.minecraft as the legacy migration builds it
\* from patches/net.minecraft.json: custom, revertible, not removable
CustomisedMinecraft == addBuiltinPatch(Cur, "net.minecraft", BuiltinOrderMinecraft)

\* C16: revertToVanilla() applies to every non-vanilla component that is
\* revertible or removable the operation matching its flag; in particular, on
\* a list whose only customised component is revertible but not removable it
\* returns true and that component remains in the list as non-custom.  The
\* list is the current one with the customised net.minecraft appended, in
\* runs in which no filesystem step failed.
C16_RevertToVanilla ==
    (/\ alive
     /\ faults = 0
     /\ ~patches["net.minecraft"].null
     /\ "net.minecraft" \notin DOMAIN componentIndex
     /\ \A i \in 1..Len(components) : ~isCustom(components[i])) =>
        LET S1 == appendComponent(Cur, CustomisedMinecraft)
            r == revertToVanilla(S1, IoOk)
        IN  /\ isCustom(CustomisedMinecraft)
            /\ isRevertible(CustomisedMinecraft)
            /\ ~isRemovable(CustomisedMinecraft)
            /\ r.ret
            /\ \E i \in 1..Len(r.S.components) :
                  /\ getID(r.S.components[i]) = "net.minecraft"
                  /\ ~isCustom(r.S.components[i])

\* C17: every component in the list has exactly one active source at all
\* times, a remote metadata handle or a local version file, never both and
\* never neither, in runs in which no filesystem step failed.
C17_OneActiveSource ==
    (faults = 0) =>
        \A i \in 1..Len(components) :
            components[i].m_metaVersion.null # components[i].m_file.null

\* C18: if the manifest exists but is malformed JSON, has a formatVersion
\* other than 1, or holds an invalid entry after valid ones, then after load()
\* the sequence and the uid index are both empty: no partially read component
\* remains.
C18_RejectedManifestLoadsEmpty ==
    (lastOp.name = "load" /\ manifest \in RejectedManifests) =>
        /\ components = <<>>
        /\ DOMAIN componentIndex = {}

\* the manifest with a valid entry followed by an invalid one was loaded
C18_Witness ==
    /\ lastOp.name = "load"
    /\ faults = 0
    /\ manifest = InvalidEntryManifest
    /\ EntryValid(manifest.components[1])
    /\ ~EntryValid(manifest.components[2])
    /\ components = <<>>

\* C19: every file the list writes (the manifest in save and migration, the
\* patch file in customize, installJarMods, installCustomJar and the legacy
\* upgrade) is written atomically: if the process dies at any point during the
\* write, the file on disk is its complete previous content (or absent) or
\* its complete new content, never a partial one.
C19_AtomicWrites ==
    (alive /\ faults = 0 /\ lastOp.name = "load" /\ components # <<>>) =>
        \A point \in CrashPoints :
            /\ saveComponentList_crash(manifest, components, point)
                    \in { manifest, ManifestOf(components) }
            /\ saveComponentList_crash(manifest, MigratedComponents(Cur), point)
                    \in { manifest, ManifestOf(MigratedComponents(Cur)) }
            /\ upgradeDeprecatedFiles_crash(Cur, LegacyVersionJson, point)
                    \in { patches["net.minecraft"], LegacyVersionJson }
            /\ \A i \in 1..Len(components) :
                    isCustomizable(components[i]) =>
                        customizeComponent_crash(Cur, components[i], point)
                            \in { patches[getID(components[i])], getVersionFile(components[i]) }
            /\ \A filepath \in Sources :
                    /\ \A uuids \in FreshUuids(Cur, 1) :
                          installJarMods_crash(Cur, uuids[1], filepath, point)
                              \in { patches[JarModUid(uuids[1])],
                                    JarModFile(Cur, uuids[1], filepath) }
                    /\ installCustomJar_crash(Cur, filepath, point)
                          \in { patches["customjar"], CustomJarFile(Cur, filepath) }

RECURSIVE StableByHint(_, _)
\* uids sorted by ascending hint, equal hints kept in the order given
StableByHint(uids, hint) ==
    IF uids = <<>> THEN <<>>
    ELSE LET u == uids[Len(uids)]
             notAfter(v) == hint[v] <= hint[u]
             after(v) == hint[v] > hint[u]
             placed(rest) == SelectSeq(rest, notAfter) \o <<u>> \o SelectSeq(rest, after)
         IN  placed(StableByHint(SubSeq(uids, 1, Len(uids) - 1), hint))

\* the uids the migrator is to write for the directory as it stands: the two
\* built-ins, the patches order.json names, then the remaining ones by hint
ExpectedMigratedUids ==
    LET expected(loadedPatches, taken) ==
            << "net.minecraft", "org.lwjgl" >> \o taken
            \o StableByHint(SortUids(DOMAIN loadedPatches \ { taken[i] : i \in 1..Len(taken) }),
                            [ u \in DOMAIN loadedPatches |-> getOrder(loadedPatches[u]) ])
        userOrdered(loadedPatches) ==
            expected(loadedPatches, TakeUserOrder(legacy.order.uids, DOMAIN loadedPatches))
    IN  userOrdered(loadSpecial(Cur, loadSpecial(Cur, ScannedPatches(Cur), "net.minecraftforge", ForgeOrder),
                                "com.mumfrey.liteloader", LiteloaderOrder))

\* C20: the list written by the legacy migrator is net.minecraft, org.lwjgl,
\* then the discovered patches named in order.json in that file's order, then
\* every remaining patch exactly once sorted by ascending order hint, patches
\* of equal hint in their order of discovery.  Stated of the first load() of
\* a directory without a manifest, when no filesystem step failed.
C20_MigratedOrder ==
    (/\ faults = 0
     /\ steps = 1
     /\ lastOp.name = "load"
     /\ manifest.exists
     /\ manifest \notin RejectedManifests) =>
        /\ ManifestUids = ExpectedMigratedUids
        /\ UidsOf(components) = ExpectedMigratedUids

\* C21: in every reachable state the uid index and the sequence agree: the
\* keys of the index are exactly the uids of the components of the sequence,
\* and each key maps to the component the sequence holds for that uid.
C21_IndexAgreesWithSequence ==
    /\ DOMAIN componentIndex = { components[i].m_uid : i \in 1..Len(components) }
    /\ \A i \in 1..Len(components) : componentIndex[components[i].m_uid] = components[i]

\* a component was removed from a list that still holds others
C21_Witness ==
    /\ lastOp.name = "remove"
    /\ lastOp.ok
    /\ lastOp.uid \notin DOMAIN componentIndex
    /\ Len(components) >= 2
    /\ DOMAIN componentIndex = { components[i].m_uid : i \in 1..Len(components) }

\* C22: customize(i) and revertToBase(i), when they return true, leave the
\* sequence of uids (membership and order) exactly as it was immediately
\* before the call, also when earlier appends, removals or moves are still
\* waiting for the debounced save.  Stated for calls in which no filesystem
\* step fails, in runs in which none failed.
C22_CustomizeKeepsSequence ==
    (alive /\ faults = 0) =>
        \A index \in 0..(Len(components) - 1) :
            /\ \E r \in { customize(Cur, index, IoOk) } :
                  r.ret => UidsOf(r.S.components) = UidsOf(components)
            /\ \E r \in { revertToBase(Cur, index, IoOk) } :
                  r.ret => UidsOf(r.S.components) = UidsOf(components)

\* the list load() yields after a crash in the current state
LoadedAfterCrash == UidsOf(load(crashed(Cur), IoOk).components)

\* C23: at every point between operations, also in the debounce window before
\* a scheduled save fires, a crash followed by load() yields a list consistent
\* with the files on disk: it lists no component whose patch or jar-mod files
\* a completed remove has deleted, and it lists every jar-mod or custom-jar
\* component whose files a completed install has written.  Stated for runs in
\* which no filesystem step failed, on directories whose manifest, if there is
\* one, can be read.
C23_CrashThenLoadConsistent ==
    (alive /\ faults = 0 /\ manifest \notin RejectedManifests) =>
        /\ (lastOp.name = "remove" /\ lastOp.ok) =>
               \A i \in 1..Len(LoadedAfterCrash) : LoadedAfterCrash[i] # lastOp.uid
        /\ \A id \in jarmods :
               ~patches[JarModUid(id)].null =>
                   \E i \in 1..Len(LoadedAfterCrash) : LoadedAfterCrash[i] = JarModUid(id)
        /\ (libJar # "" /\ ~patches["customjar"].null) =>
               \E i \in 1..Len(LoadedAfterCrash) : LoadedAfterCrash[i] = "customjar"

\* the uids a manifest lists
ListedUids(file) ==
    [ i \in 1..Len(file.components) |-> ensureString(file.components[i], "uid") ]

\* C24 as stated: whenever the list is clean after a save() or load() has
\* run, the manifest on disk lists exactly the uids of the in-memory sequence
\* in the same order, for every outcome of the write performed by save(),
\* a failed open, write or commit included.  Stated of lists that hold a
\* component.
C24_CleanMeansSaved_AsStated ==
    (alive /\ steps < MaxSteps /\ components # <<>>) =>
        /\ \A outcome \in SaveOutcomes :
              \E S \in { save(Cur, outcome) } :
                  ~S.dirty => ListedUids(S.manifest) = UidsOf(S.components)
        /\ \A io \in LoadIosAt(Cur) :
              \E S \in { load(Cur, io) } :
                  ~S.dirty => ListedUids(S.manifest) = UidsOf(S.components)

\* C24 amended: save() leaves the list clean whatever the write did; when the
\* write went through, the manifest lists exactly the uids of the in-memory
\* sequence in the same order, and when the open, the write or the commit
\* failed the manifest is as it was.  After a load() that read a manifest it
\* accepts, the manifest lists exactly the uids of the in-memory sequence in
\* the same order.  Stated of every state in which the run may still call an
\* operation.
C24_CleanMeansSaved ==
    (alive /\ steps < MaxSteps) =>
        /\ \A outcome \in SaveOutcomes :
              \E S \in { save(Cur, outcome) } :
                  /\ ~S.dirty
                  /\ IF outcome = "ok"
                     THEN ListedUids(S.manifest) = UidsOf(S.components)
                     ELSE S.manifest = manifest
        /\ \A io \in LoadIosAt(Cur) :
              \E S \in { load(Cur, io) } :
                  (S.manifest.exists /\ loadComponentList(S.manifest, io.read).ret) =>
                      ListedUids(S.manifest) = UidsOf(S.components)

\* the timer's save went through on a list of two or more and left it clean
C24_Witness ==
    /\ alive
    /\ lastOp.name = "timeout"
    /\ lastOp.ok
    /\ lastOp.saves = 1
    /\ ~dirty
    /\ Len(components) >= 2
    /\ ListedUids(manifest) = UidsOf(components)

\* C25: after installCustomJar(path) returns true the list holds exactly one
\* component with uid customjar, and the version file of that component (its
\* name and its main jar) is the one this call synthesised from path and
\* wrote to patches/customjar.json, also when a customjar component was
\* already in the list.  Stated of a call in which no step fails and that
\* follows a call of installCustomJar that returned true.
C25_CustomJarReplaced ==
    (alive /\ faults = 0 /\ lastOp.name = "installCustomJar" /\ lastOp.ok) =>
        \A filepath \in Sources :
            \E r \in { installCustomJar_internal(Cur, filepath, IoOk) } :
                r.ret =>
                    /\ Cardinality({ i \in 1..Len(r.S.components) :
                                        r.S.components[i].m_uid = "customjar" }) = 1
                    /\ \A i \in 1..Len(r.S.components) :
                          r.S.components[i].m_uid = "customjar" =>
                              /\ getVersionFile(r.S.components[i]).name = CustomJarName(filepath)
                              /\ getVersionFile(r.S.components[i]).mainJar = filepath
                              /\ r.S.patches["customjar"].name = CustomJarName(filepath)
                              /\ r.S.patches["customjar"].mainJar = filepath

\* C26: whenever the list is dirty, a save is eventually performed, by the
\* expiry of the debounce timer or by the destruction of the list, and the
\* dirty flag is false afterwards.  The owner calls finitely many operations
\* in a run, so scheduleSave is not called infinitely often; the timer is
\* allowed to fire by the fairness of FairSpec.
C26_DirtyIsEventuallySaved ==
    (alive /\ dirty) ~>
        (~dirty /\ lastOp.name \in { "timeout", "destroy" } /\ lastOp.saves >= 1)

\* the timer fired on a dirty list, the write failed and the flag is cleared
C26_Witness ==
    /\ alive
    /\ lastOp.name = "timeout"
    /\ ~lastOp.ok
    /\ lastOp.saves = 1
    /\ ~dirty
    /\ components # <<>>

\* C27: in every state before destruction the debounce timer is pending if
\* and only if the dirty flag is true: an expiry never finds a clean list and
\* a dirty list always has a timer running.
C27_TimerIffDirty == alive => (m_saveTimer.active <=> dirty)

\* load() ran on a list with unsaved edits: the flag and the timer both stay
C27_Witness ==
    /\ alive
    /\ lastOp.name = "load"
    /\ dirty
    /\ m_saveTimer.active
    /\ m_saveTimer.elapsed >= SaveInterval

====
